---------------------------- MODULE Spec2Model ----------------------------
(***************************************************************************)
(* A model of the tennis command-line tool (cli/main.go, cli/cmd_match.go, *)
(* cli/cmd_workflow.go).                                                   *)
(*                                                                         *)
(* Text is modelled as a sequence of chunks.  A chunk that comes from an   *)
(* input (a flag, an environment value, a field returned by the platform)  *)
(* is a single character, so splitting, trimming, suffix tests and case    *)
(* folding are computed character by character.  A chunk that comes from a *)
(* format string of the program is the literal piece of that format        *)
(* string, kept whole.                                                     *)
(***************************************************************************)
EXTENDS Integers, Sequences, FiniteSets, TLC

VARIABLES
    pc,            \* position of the running command
    outcome,       \* "running", "ok", "error" or "panic"
    err,           \* the error returned by the command (<<>>: none)
    calls,         \* the remote calls made so far, in order
    cmdName,       \* cmd.Name()
    token,         \* main.go: var token
    owner,         \* main.go: var owner
    repo,          \* main.go: var repo
    flags,         \* the values the flags had on the command line
    env,           \* the process environment
    playerList,    \* singles: playerList after parsing
    teamList,      \* doubles: teamList after parsing
    setsList,      \* setsList returned by parseSets
    issueRequest,  \* the github.IssueRequest handed to Issues.Create
    workflows,     \* workflows.Workflows returned by ListWorkflows
    foundWorkflow, \* index in workflows of foundWorkflow (0: nil)
    workflowID,    \* var workflowID
    ref,           \* ref := *repoInfo.DefaultBranch
    stdout,        \* the lines printed about workflows
    dispatch       \* the dispatch request sent (<<>>: none)

vars == <<pc, outcome, err, calls, cmdName, token, owner, repo, flags, env,
          playerList, teamList, setsList, issueRequest,
          workflows, foundWorkflow, workflowID, ref, stdout, dispatch>>

configVars == <<cmdName, token, owner, repo, env>>
matchVars == <<playerList, teamList, setsList, issueRequest>>
workflowVars == <<workflows, foundWorkflow, workflowID, ref, stdout, dispatch>>

-----------------------------------------------------------------------------
(* Bounds of the model.                                                    *)

MaxRepoStringLen == 3   \* length of GITHUB_REPOSITORY
MaxHandles == 3         \* comma-separated parts of --players
MaxTeams == 3           \* "||"-separated parts of --teams
MaxSets == 3            \* comma-separated parts of --sets (match commands)
MaxSetParts == 3        \* comma-separated parts of the text given to parseSets
MaxWorkflows == 2       \* descriptors returned by ListWorkflows

-----------------------------------------------------------------------------
(* Text: the functions of package strings the program uses.                *)

Digits == {"0", "1", "2", "3", "4", "5", "6", "7", "8", "9"}

\* unicode.IsSpace, restricted to the characters of the model
Whitespace == {" ", "\t"}

RECURSIVE TrimLeft(_)
TrimLeft(s) ==
    IF s # <<>> /\ Head(s) \in Whitespace THEN TrimLeft(Tail(s)) ELSE s

RECURSIVE TrimRight(_)
TrimRight(s) ==
    IF s # <<>> /\ s[Len(s)] \in Whitespace
    THEN TrimRight(SubSeq(s, 1, Len(s) - 1))
    ELSE s

\* strings.TrimSpace
TrimSpace(s) == TrimRight(TrimLeft(s))

\* strings.HasSuffix
HasSuffix(s, suffix) ==
    /\ Len(suffix) <= Len(s)
    /\ SubSeq(s, Len(s) - Len(suffix) + 1, Len(s)) = suffix

\* strings.TrimSuffix
TrimSuffix(s, suffix) ==
    IF HasSuffix(s, suffix) THEN SubSeq(s, 1, Len(s) - Len(suffix)) ELSE s

\* strings.Index: the first position where sep starts in s, 0 when there is none
Index(s, sep) ==
    LET hits == {i \in 1..(Len(s) - Len(sep) + 1) :
                    SubSeq(s, i, i + Len(sep) - 1) = sep}
    IN  IF hits = {} THEN 0 ELSE CHOOSE i \in hits : \A j \in hits : i <= j

\* strings.Split, for a non-empty separator
RECURSIVE Split(_, _)
Split(s, sep) ==
    LET i == Index(s, sep)
    IN  IF i = 0
        THEN <<s>>
        ELSE <<SubSeq(s, 1, i - 1)>> \o Split(SubSeq(s, i + Len(sep), Len(s)), sep)

\* strings.Join
RECURSIVE Join(_, _)
Join(parts, sep) ==
    IF parts = <<>> THEN <<>>
    ELSE IF Len(parts) = 1 THEN parts[1]
    ELSE parts[1] \o sep \o Join(Tail(parts), sep)

\* the upper-case letters of the model and their lower-case forms
LowerOf ==
    [c \in {"A", "B", "D", "L", "M", "R", "W", "Y"} |->
        CASE c = "A" -> "a" [] c = "B" -> "b" [] c = "D" -> "d" [] c = "L" -> "l"
          [] c = "M" -> "m" [] c = "R" -> "r" [] c = "W" -> "w" [] c = "Y" -> "y"]

Fold(c) == IF c \in DOMAIN LowerOf THEN LowerOf[c] ELSE c

\* strings.EqualFold
EqualFold(s, t) ==
    /\ Len(s) = Len(t)
    /\ \A i \in 1..Len(s) : Fold(s[i]) = Fold(t[i])

\* strings.Contains
Contains(s, sub) == Index(s, sub) # 0

\* every text of 0..n characters over an alphabet
Texts(alphabet, n) == UNION {[1..k -> alphabet] : k \in 0..n}

\* every sequence of 1..n elements of a set
Lists(S, n) == UNION {[1..k -> S] : k \in 1..n}

-----------------------------------------------------------------------------
(* main.go: the configuration resolved before every command.               *)

\* splitRepoString: split on the first '/'
splitRepoString(repoString) ==
    LET i == Index(repoString, <<"/">>)
    IN  IF i = 0
        THEN <<repoString>>
        ELSE <<SubSeq(repoString, 1, i - 1),
               SubSeq(repoString, i + 1, Len(repoString))>>

DefaultOwner == <<"stonehenge-collective">>
DefaultRepo == <<"tennis">>

\* the token after "Get token from environment if not provided"
resolveToken(tok, e) ==
    IF tok # <<>> THEN tok
    ELSE IF e.GITHUB_TOKEN # <<>> THEN e.GITHUB_TOKEN
    ELSE e.GH_TOKEN

\* <<owner, repo>> after "Get owner/repo from environment if not provided"
ownerRepoFromEnv(o, r, e) ==
    IF (o = <<>> \/ r = <<>>) /\ e.GITHUB_REPOSITORY # <<>>
    THEN LET parts == splitRepoString(e.GITHUB_REPOSITORY)
         IN  IF Len(parts) = 2 THEN <<parts[1], parts[2]>> ELSE <<o, r>>
    ELSE <<o, r>>

\* <<owner, repo>> after "Default fallback"
ownerRepoDefault(o, r) ==
    <<IF o = <<>> THEN DefaultOwner ELSE o, IF r = <<>> THEN DefaultRepo ELSE r>>

\* rootCmd.PersistentPreRunE
PersistentPreRunE ==
    /\ pc = "prerun"
    /\ pc' = "done"
    /\ IF cmdName \in {"version", "help"}
       THEN /\ outcome' = "ok"
            /\ UNCHANGED <<err, token, owner, repo>>
       ELSE LET tok == resolveToken(token, env)
                or == ownerRepoDefault(ownerRepoFromEnv(owner, repo, env)[1],
                                       ownerRepoFromEnv(owner, repo, env)[2])
            IN  /\ token' = tok
                /\ IF tok = <<>>
                   THEN /\ outcome' = "error"
                        /\ err' = <<"GitHub token required. Set GITHUB_TOKEN environment variable or use --token flag">>
                        /\ UNCHANGED <<owner, repo>>
                   ELSE /\ outcome' = "ok"
                        /\ owner' = or[1]
                        /\ repo' = or[2]
                        /\ UNCHANGED err
    /\ UNCHANGED <<calls, cmdName, flags, env>>
    /\ UNCHANGED matchVars
    /\ UNCHANGED workflowVars

RepoChars == {"o", "r", "/"}

NoFlags ==
    [token |-> <<>>, owner |-> <<>>, repo |-> <<>>, players |-> <<>>, teams |-> <<>>,
     sets |-> <<>>, date |-> <<>>, environment |-> <<>>, args |-> <<>>]

NoEnv == [GITHUB_TOKEN |-> <<>>, GH_TOKEN |-> <<>>, GITHUB_REPOSITORY |-> <<>>]

IdleMatch ==
    /\ playerList = <<>>
    /\ teamList = <<>>
    /\ setsList = <<>>
    /\ issueRequest = <<>>

IdleWorkflow ==
    /\ workflows = <<>>
    /\ foundWorkflow = 0
    /\ workflowID = 0
    /\ ref = <<>>
    /\ stdout = <<>>
    /\ dispatch = <<>>

InitConfig ==
    /\ pc = "prerun"
    /\ outcome = "running"
    /\ err = <<>>
    /\ calls = <<>>
    /\ cmdName \in {"version", "help", "singles", "trigger"}
    /\ \E t \in {<<>>, <<"t">>}, o \in {<<>>, <<"x">>}, r \in {<<>>, <<"y">>} :
          /\ flags = [NoFlags EXCEPT !.token = t, !.owner = o, !.repo = r]
          /\ token = t
          /\ owner = o
          /\ repo = r
    /\ \E g \in {<<>>, <<"g">>}, h \in {<<>>, <<"h">>},
          gr \in Texts(RepoChars, MaxRepoStringLen) :
          env = [GITHUB_TOKEN |-> g, GH_TOKEN |-> h, GITHUB_REPOSITORY |-> gr]
    /\ IdleMatch
    /\ IdleWorkflow

NextConfig == PersistentPreRunE

SpecConfig == InitConfig /\ [][NextConfig]_vars


\* C9: a value given explicitly with --owner or --repo is the resolved value,
\* whatever the other flag and GITHUB_REPOSITORY contain.
C9_ExplicitFlagNeverReplaced ==
    (pc = "done" /\ outcome = "ok" /\ cmdName \notin {"version", "help"}) =>
        /\ (flags.owner # <<>> => owner = flags.owner)
        /\ (flags.repo # <<>> => repo = flags.repo)

-----------------------------------------------------------------------------
(* cmd_match.go: validation.                                               *)

DigitValue ==
    [c \in Digits |->
        CASE c = "0" -> 0 [] c = "1" -> 1 [] c = "2" -> 2 [] c = "3" -> 3
          [] c = "4" -> 4 [] c = "5" -> 5 [] c = "6" -> 6 [] c = "7" -> 7
          [] c = "8" -> 8 [] c = "9" -> 9]

\* the number written by a text of digits
RECURSIVE Atoi(_)
Atoi(s) ==
    IF s = <<>> THEN 0
    ELSE 10 * Atoi(SubSeq(s, 1, Len(s) - 1)) + DigitValue[s[Len(s)]]

\* dateRegex: ^\d{4}-\d{2}-\d{2}$
dateRegexMatch(date) ==
    /\ Len(date) = 10
    /\ \A i \in {1, 2, 3, 4, 6, 7, 9, 10} : date[i] \in Digits
    /\ date[5] = "-"
    /\ date[8] = "-"

\* isLeap without the century rule
isLeap_EveryFourthYear(year) == year % 4 = 0

\* package time: isLeap and daysIn
isLeap(year) == year % 4 = 0 /\ (year % 100 # 0 \/ year % 400 = 0)

daysIn(month, year) ==
    IF month = 2 THEN (IF isLeap(year) THEN 29 ELSE 28)
    ELSE IF month \in {4, 6, 9, 11} THEN 30
    ELSE 31

\* time.Parse("2006-01-02", date) returns no error; date matches dateRegex
timeParseOk(date) ==
    LET year == Atoi(SubSeq(date, 1, 4))
        month == Atoi(SubSeq(date, 6, 7))
        day == Atoi(SubSeq(date, 9, 10))
    IN  /\ month \in 1..12
        /\ day >= 1
        /\ day <= daysIn(month, year)

isValidDate(date) ==
    IF ~dateRegexMatch(date) THEN FALSE ELSE timeParseOk(date)

\* the number of leading digits of s
RECURSIVE DigitPrefixLen(_)
DigitPrefixLen(s) ==
    IF s # <<>> /\ Head(s) \in Digits THEN 1 + DigitPrefixLen(Tail(s)) ELSE 0

\* setRegex without its anchors: \d+-\d+ found anywhere in the element
setRegexMatch_Unanchored(set) ==
    \E i \in 2..(Len(set) - 1) :
        set[i] = "-" /\ set[i - 1] \in Digits /\ set[i + 1] \in Digits

\* setRegex: ^\d+-\d+$
setRegexMatch(set) ==
    LET n == DigitPrefixLen(set)
        rest == SubSeq(set, n + 2, Len(set))
    IN  /\ n >= 1
        /\ Len(set) >= n + 1
        /\ set[n + 1] = "-"
        /\ rest # <<>>
        /\ DigitPrefixLen(rest) = Len(rest)

\* the loop of parseSets from element i on: the list with every element trimmed,
\* or the error of the first element that does not match
RECURSIVE parseSetsFrom(_, _)
parseSetsFrom(list, i) ==
    IF i > Len(list)
    THEN [ok |-> TRUE, setsList |-> list, err |-> <<>>]
    ELSE LET set == TrimSpace(list[i])
         IN  IF ~setRegexMatch(set)
             THEN [ok |-> FALSE, setsList |-> <<>>,
                   err |-> <<"invalid set format '">> \o set
                           \o <<"'. Use format like '6-3'">>]
             ELSE parseSetsFrom([list EXCEPT ![i] = set], i + 1)

\* parseSets without the test of the elements
parseSets_Unchecked(sets) ==
    LET list == Split(sets, <<",">>)
    IN  [ok |-> TRUE, setsList |-> [i \in 1..Len(list) |-> TrimSpace(list[i])],
         err |-> <<>>]

\* parseSets with an error that does not name the element
parseSets_FixedMessage(sets) ==
    LET r == parseSetsFrom(Split(sets, <<",">>), 1)
    IN  IF ~r.ok
        THEN [ok |-> FALSE, setsList |-> <<>>,
              err |-> <<"invalid set format", ".", " Use format like '6-3'">>]
        ELSE r

parseSets(sets) ==
    LET r == parseSetsFrom(Split(sets, <<",">>), 1)
    IN  IF ~r.ok THEN r
        ELSE IF Len(r.setsList) = 0
        THEN [ok |-> FALSE, setsList |-> <<>>, err |-> <<"at least one set is required">>]
        ELSE r

\* playerList with every element trimmed
trimAll(list) == [i \in 1..Len(list) |-> TrimSpace(list[i])]

-----------------------------------------------------------------------------
(* cmd_match.go: the match commands.                                       *)

Failed(message) ==
    [ok |-> FALSE, err |-> message, date |-> <<>>, list |-> <<>>, setsList |-> <<>>]

\* singlesMatchCmd.RunE up to the call of createSinglesIssue; today is the
\* text of time.Now().Format("2006-01-02")
singlesRunE(players, sets, dateFlag, today) ==
    LET date == IF dateFlag = <<>> THEN today ELSE dateFlag
        playerSplit == Split(players, <<",">>)
        parsed == parseSets(sets)
    IN  IF players = <<>> THEN Failed(<<"players are required (use --players)">>)
        ELSE IF sets = <<>> THEN Failed(<<"sets are required (use --sets)">>)
        ELSE IF ~isValidDate(date)
        THEN Failed(<<"invalid date format. Use YYYY-MM-DD">>)
        ELSE IF Len(playerSplit) # 2
        THEN Failed(<<"exactly 2 players required for singles match">>)
        ELSE IF ~parsed.ok
        THEN Failed(<<"invalid sets format: ">> \o parsed.err)
        ELSE [ok |-> TRUE, err |-> <<>>, date |-> date,
              list |-> trimAll(playerSplit), setsList |-> parsed.setsList]

\* the loop without its check of the number of players
parseTeamsFrom_AnyArity(teamParts, i, teamList_) ==
    [ok |-> TRUE,
     teamList |-> [k \in 1..Len(teamParts) |->
                      trimAll(Split(TrimSpace(teamParts[k]), <<",">>))]]

\* the loop over teamParts of doublesMatchCmd.RunE from team i on: the teams
\* parsed so far, or a failure at the first team that has not two players
RECURSIVE parseTeamsFrom(_, _, _)
parseTeamsFrom(teamParts, i, teamList_) ==
    IF i > Len(teamParts) THEN [ok |-> TRUE, teamList |-> teamList_]
    ELSE LET teamPlayers == Split(TrimSpace(teamParts[i]), <<",">>)
         IN  IF Len(teamPlayers) # 2 THEN [ok |-> FALSE, teamList |-> <<>>]
             ELSE parseTeamsFrom(teamParts, i + 1,
                                 Append(teamList_, trimAll(teamPlayers)))

\* doublesMatchCmd.RunE up to the call of createDoublesIssue
doublesRunE(teams, sets, dateFlag, today) ==
    LET date == IF dateFlag = <<>> THEN today ELSE dateFlag
        teamParts == Split(teams, <<"|", "|">>)
        teamsParsed == parseTeamsFrom(teamParts, 1, <<>>)
        parsed == parseSets(sets)
    IN  IF teams = <<>> THEN Failed(<<"teams are required (use --teams)">>)
        ELSE IF sets = <<>> THEN Failed(<<"sets are required (use --sets)">>)
        ELSE IF ~isValidDate(date)
        THEN Failed(<<"invalid date format. Use YYYY-MM-DD">>)
        ELSE IF Len(teamParts) # 2
        THEN Failed(<<"exactly 2 teams required for doubles match (separated by ||)">>)
        ELSE IF ~teamsParsed.ok
        THEN Failed(<<"each team must have exactly 2 players">>)
        ELSE IF ~parsed.ok
        THEN Failed(<<"invalid sets format: ">> \o parsed.err)
        ELSE [ok |-> TRUE, err |-> <<>>, date |-> date,
              list |-> teamsParsed.teamList, setsList |-> parsed.setsList]

SinglesLabel == <<"new-singles-match">>
DoublesLabel == <<"new-doubles-match">>

\* the section headings of the issue body (the source writes the apostrophe of
\* "winner's" as U+2019; it is one character of a fixed heading either way)
MatchDateHeader == <<"### Match date (YYYY-MM-DD)">>
PlayersHeader == <<"### Players (winner first, comma-separated @handles)">>
TeamsHeader == <<"### Teams (winner first, comma-separated @handles)">>
SetsHeader == <<"### Sets (one line per set, winner's games first)">>

\* createSinglesIssue with the two players exchanged
singlesIssueRequest_LoserFirst(p, s, date) ==
    [title |-> <<"Singles Match: ">> \o p[2] \o <<" vs ">> \o p[1]
               \o <<" (">> \o date \o <<")">>,
     body |-> MatchDateHeader \o <<"\n">> \o date \o <<"\n", "\n">>
              \o PlayersHeader \o <<"\n">> \o p[2] \o <<", ">> \o p[1] \o <<"\n", "\n">>
              \o SetsHeader \o <<"\n">> \o Join(s, <<"\n">>),
     labels |-> <<SinglesLabel>>]

\* the github.IssueRequest built by createSinglesIssue
singlesIssueRequest(p, s, date) ==
    [title |-> <<"Singles Match: ">> \o p[1] \o <<" vs ">> \o p[2]
               \o <<" (">> \o date \o <<")">>,
     body |-> MatchDateHeader \o <<"\n">> \o date \o <<"\n", "\n">>
              \o PlayersHeader \o <<"\n">> \o p[1] \o <<", ">> \o p[2] \o <<"\n", "\n">>
              \o SetsHeader \o <<"\n">> \o Join(s, <<"\n">>),
     labels |-> <<SinglesLabel>>]

\* createDoublesIssue with the singles label
doublesIssueRequest_SinglesLabel(t, s, date) ==
    LET team1Str == t[1][1] \o <<", ">> \o t[1][2]
        team2Str == t[2][1] \o <<", ">> \o t[2][2]
    IN  [title |-> <<"Doubles Match: (">> \o team1Str \o <<") vs (">> \o team2Str
                   \o <<") (">> \o date \o <<")">>,
         body |-> MatchDateHeader \o <<"\n">> \o date \o <<"\n", "\n">>
                  \o TeamsHeader \o <<"\n">> \o team1Str \o <<" || ">> \o team2Str
                  \o <<"\n", "\n">>
                  \o SetsHeader \o <<"\n">> \o Join(s, <<"\n">>),
         labels |-> <<SinglesLabel>>]

\* the github.IssueRequest built by createDoublesIssue
doublesIssueRequest(t, s, date) ==
    LET team1Str == t[1][1] \o <<", ">> \o t[1][2]
        team2Str == t[2][1] \o <<", ">> \o t[2][2]
    IN  [title |-> <<"Doubles Match: (">> \o team1Str \o <<") vs (">> \o team2Str
                   \o <<") (">> \o date \o <<")">>,
         body |-> MatchDateHeader \o <<"\n">> \o date \o <<"\n", "\n">>
                  \o TeamsHeader \o <<"\n">> \o team1Str \o <<" || ">> \o team2Str
                  \o <<"\n", "\n">>
                  \o SetsHeader \o <<"\n">> \o Join(s, <<"\n">>),
         labels |-> <<DoublesLabel>>]

\* the dates time.Now() can give
Todays == {<<"2", "0", "2", "6", "-", "0", "2", "-", "2", "8">>}

\* singlesMatchCmd.RunE, to its return or to the call of client.Issues.Create
SinglesRunE ==
    /\ pc = "start"
    /\ cmdName = "singles"
    /\ \E today \in Todays :
         LET r == singlesRunE(flags.players, flags.sets, flags.date, today)
         IN  IF ~r.ok
             THEN /\ pc' = "done"
                  /\ outcome' = "error"
                  /\ err' = r.err
                  /\ UNCHANGED <<calls, playerList, setsList, issueRequest>>
             ELSE /\ pc' = "create"
                  /\ playerList' = r.list
                  /\ setsList' = r.setsList
                  /\ issueRequest' = singlesIssueRequest(r.list, r.setsList, r.date)
                  /\ calls' = Append(calls, "Issues.Create")
                  /\ UNCHANGED <<outcome, err>>
    /\ UNCHANGED <<cmdName, token, owner, repo, flags, env, teamList>>
    /\ UNCHANGED workflowVars

\* doublesMatchCmd.RunE, to its return or to the call of client.Issues.Create
DoublesRunE ==
    /\ pc = "start"
    /\ cmdName = "doubles"
    /\ \E today \in Todays :
         LET r == doublesRunE(flags.teams, flags.sets, flags.date, today)
         IN  IF ~r.ok
             THEN /\ pc' = "done"
                  /\ outcome' = "error"
                  /\ err' = r.err
                  /\ UNCHANGED <<calls, teamList, setsList, issueRequest>>
             ELSE /\ pc' = "create"
                  /\ teamList' = r.list
                  /\ setsList' = r.setsList
                  /\ issueRequest' = doublesIssueRequest(r.list, r.setsList, r.date)
                  /\ calls' = Append(calls, "Issues.Create")
                  /\ UNCHANGED <<outcome, err>>
    /\ UNCHANGED <<cmdName, token, owner, repo, flags, env, playerList>>
    /\ UNCHANGED workflowVars

\* what the platform can answer to a call: no error, or an error
RemoteErrors == {<<"401 Bad credentials">>}

\* client.Issues.Create returns, and createSinglesIssue / createDoublesIssue
\* with it
IssuesCreateReturns ==
    /\ pc = "create"
    /\ pc' = "done"
    /\ \/ /\ outcome' = "ok"
          /\ UNCHANGED err
       \/ \E e \in RemoteErrors :
             /\ outcome' = "error"
             /\ err' = <<"failed to create issue: ">> \o e
    /\ UNCHANGED <<calls, cmdName, token, owner, repo, flags, env>>
    /\ UNCHANGED matchVars
    /\ UNCHANGED workflowVars

\* the texts of the match commands' flags
Handles == {<<"@", "a">>, <<" ", "@", "b", " ">>, <<>>}

TeamTexts ==
    {<<"@", "a", ",", "@", "b">>,
     <<" ", "@", "c", " ", ",", " ", "@", "d", " ">>,
     <<"@", "a">>,
     <<"@", "a", ",", "@", "b", ",", "@", "c">>}

SetTexts == {<<"6", "-", "3">>, <<" ", "4", "-", "6", " ">>, <<"x">>, <<"6", "-">>}

DateTexts ==
    {<<>>,
     <<"2", "0", "2", "5", "-", "0", "1", "-", "1", "5">>,
     <<"2", "0", "2", "5", "-", "0", "2", "-", "3", "0">>}

PlayersInputs == {Join(l, <<",">>) : l \in Lists(Handles, MaxHandles)}
TeamsInputs == {<<>>} \cup {Join(l, <<"|", "|">>) : l \in Lists(TeamTexts, MaxTeams)}
SetsInputs == {<<>>} \cup {Join(l, <<",">>) : l \in Lists(SetTexts, MaxSets)}

InitMatch ==
    /\ pc = "start"
    /\ outcome = "running"
    /\ err = <<>>
    /\ calls = <<>>
    /\ cmdName \in {"singles", "doubles"}
    /\ token = <<"t">>
    /\ owner = DefaultOwner
    /\ repo = DefaultRepo
    /\ env = NoEnv
    /\ \E s \in SetsInputs, d \in DateTexts :
          \/ /\ cmdName = "singles"
             /\ \E p \in PlayersInputs :
                   flags = [NoFlags EXCEPT !.players = p, !.sets = s, !.date = d]
          \/ /\ cmdName = "doubles"
             /\ \E t \in TeamsInputs :
                   flags = [NoFlags EXCEPT !.teams = t, !.sets = s, !.date = d]
    /\ IdleMatch
    /\ IdleWorkflow

NextMatch ==
    \/ SinglesRunE
    \/ DoublesRunE
    \/ IssuesCreateReturns

SpecMatch == InitMatch /\ [][NextMatch]_vars

-----------------------------------------------------------------------------
(* cmd_workflow.go: workflow trigger.                                      *)

\* a *string field of github.Workflow: <<>> is nil, <<t>> points to the text t
Nil == <<>>
Ptr(t) == <<t>>

\* rule 1: the display name, compared with strings.EqualFold
matchesName(workflow, workflowName) ==
    workflow.Name # Nil /\ EqualFold(workflow.Name[1], workflowName)

\* rule 2: the path, tested with strings.HasSuffix
matchesPath(workflow, workflowName) ==
    workflow.Path # Nil /\ HasSuffix(workflow.Path[1], workflowName)

\* the last element of the path, with ".yml" and then ".yaml" trimmed
nameWithoutExt(path) ==
    LET parts == Split(path, <<"/">>)
        filename == parts[Len(parts)]
    IN  TrimSuffix(TrimSuffix(filename, <<".", "y", "m", "l">>),
                   <<".", "y", "a", "m", "l">>)

\* rule 3: the filename without extension, compared with strings.EqualFold
matchesFilename(workflow, workflowName) ==
    workflow.Path # Nil /\ EqualFold(nameWithoutExt(workflow.Path[1]), workflowName)

\* the three tests of the loop body without the last one
matchesWorkflow_NoFilename(workflow, workflowName) ==
    \/ matchesName(workflow, workflowName)
    \/ matchesPath(workflow, workflowName)

\* the three tests of the loop body: any of them breaks the loop
matchesWorkflow(workflow, workflowName) ==
    \/ matchesName(workflow, workflowName)
    \/ matchesPath(workflow, workflowName)
    \/ matchesFilename(workflow, workflowName)

\* the loop over workflows.Workflows from index i on: the index of
\* foundWorkflow, 0 when it stays nil
RECURSIVE findWorkflowFrom(_, _, _)
findWorkflowFrom(list, i, workflowName) ==
    IF i > Len(list) THEN 0
    ELSE IF matchesWorkflow(list[i], workflowName) THEN i
    ELSE findWorkflowFrom(list, i + 1, workflowName)

\* resolution by priority tier over the whole list: rule 1 on every workflow,
\* then rule 2 on every workflow, then rule 3
findWorkflow_Tiered(list, workflowName) ==
    LET first(S) == IF S = {} THEN 0 ELSE CHOOSE i \in S : \A j \in S : i <= j
        byName == {i \in 1..Len(list) : matchesName(list[i], workflowName)}
        byPath == {i \in 1..Len(list) : matchesPath(list[i], workflowName)}
        byFilename == {i \in 1..Len(list) : matchesFilename(list[i], workflowName)}
    IN  IF byName # {} THEN first(byName)
        ELSE IF byPath # {} THEN first(byPath)
        ELSE first(byFilename)

findWorkflow(list, workflowName) == findWorkflowFrom(list, 1, workflowName)

\* the loop printing the available workflows from index i on: the lines
\* printed, and whether *workflow.Name or *workflow.Path was a nil dereference
RECURSIVE printAvailableFrom(_, _, _)
printAvailableFrom(list, i, out) ==
    IF i > Len(list) THEN [panic |-> FALSE, out |-> out]
    ELSE IF list[i].Name = Nil \/ list[i].Path = Nil
    THEN [panic |-> TRUE, out |-> out]
    ELSE printAvailableFrom(list, i + 1,
            Append(out, <<"  - ">> \o list[i].Name[1] \o <<" (">>
                        \o list[i].Path[1] \o <<")">>))

DefaultEnvironment == <<"github-pages">>

\* inputs that ignore --environment
workflowInputs_DefaultOnly(environment) == [environment |-> DefaultEnvironment]

\* inputs of the dispatch request
workflowInputs(environment) ==
    [environment |-> IF environment # <<>> THEN environment ELSE DefaultEnvironment]

\* a dispatch request on the branch "main" whatever the default branch is
dispatchEvent_MainRef(id, ref_, environment) ==
    [id |-> id, ref |-> <<"main">>, inputs |-> workflowInputs(environment)]

\* the call client.Actions.CreateWorkflowDispatchEventByID(ctx, owner, repo,
\* workflowID, *dispatchOptions): the workflow id, Ref and Inputs it is given
dispatchEvent(id, ref_, environment) ==
    [id |-> id, ref |-> ref_, inputs |-> workflowInputs(environment)]

\* triggerWorkflowCmd.RunE to the call of client.Actions.ListWorkflows
TriggerRunE ==
    /\ pc = "start"
    /\ cmdName = "trigger"
    /\ pc' = "list"
    /\ calls' = Append(calls, "Actions.ListWorkflows")
    /\ UNCHANGED <<outcome, err, cmdName, token, owner, repo, flags, env>>
    /\ UNCHANGED matchVars
    /\ UNCHANGED workflowVars

\* the names, paths and lists the platform can return
WorkflowNames == {<<"R", "b">>, <<"d">>}

WorkflowPaths ==
    {<<"w", "/", "r", "b", ".", "y", "m", "l">>,
     <<"w", "/", "d", ".", "y", "a", "m", "l">>,
     <<"w", "/", "r", "b", ".", "y", "a", "m", "l", ".", "y", "m", "l">>}

WorkflowFields ==
    [Name : {Nil} \cup {Ptr(n) : n \in WorkflowNames},
     Path : {Nil} \cup {Ptr(q) : q \in WorkflowPaths}]

\* every workflow has an id of its own
WorkflowLists ==
    {[i \in 1..Len(l) |-> [Name |-> l[i].Name, Path |-> l[i].Path, ID |-> 10 + i]] :
        l \in {<<>>} \cup Lists(WorkflowFields, MaxWorkflows)}

DefaultBranches == {<<"main">>, <<"dev">>}

\* client.Actions.ListWorkflows returns; on success the command runs to its
\* "not found" return or to the call of client.Repositories.Get
ListWorkflowsReturns ==
    /\ pc = "list"
    /\ \/ \E e \in RemoteErrors :
             /\ pc' = "done"
             /\ outcome' = "error"
             /\ err' = <<"failed to list workflows: ">> \o e
             /\ UNCHANGED <<calls, workflows, foundWorkflow, workflowID, stdout>>
       \/ \E list \in WorkflowLists :
             LET found == findWorkflow(list, flags.args)
                 printed == printAvailableFrom(list, 1, <<<<"Available workflows:">>>>)
             IN  /\ workflows' = list
                 /\ foundWorkflow' = found
                 /\ IF found = 0
                    THEN /\ pc' = "done"
                         /\ stdout' = printed.out
                         /\ outcome' = IF printed.panic THEN "panic" ELSE "error"
                         /\ err' = IF printed.panic THEN <<>>
                                   ELSE <<"workflow '">> \o flags.args \o <<"' not found">>
                         /\ UNCHANGED <<calls, workflowID>>
                    ELSE /\ pc' = "get"
                         /\ workflowID' = list[found].ID
                         /\ calls' = Append(calls, "Repositories.Get")
                         /\ UNCHANGED <<outcome, err, stdout>>
    /\ UNCHANGED <<cmdName, token, owner, repo, flags, env, ref, dispatch>>
    /\ UNCHANGED matchVars

\* client.Repositories.Get returns; on success the command announces the
\* workflow and calls client.Actions.CreateWorkflowDispatchEventByID
RepositoriesGetReturns ==
    /\ pc = "get"
    /\ \/ \E e \in RemoteErrors :
             /\ pc' = "done"
             /\ outcome' = "error"
             /\ err' = <<"failed to get repository info: ">> \o e
             /\ UNCHANGED <<calls, ref, stdout, dispatch>>
       \/ \E branch \in DefaultBranches :
             LET found == workflows[foundWorkflow]
             IN  /\ ref' = branch
                 /\ IF found.Name = Nil
                    THEN /\ pc' = "done"
                         /\ outcome' = "panic"
                         /\ UNCHANGED <<calls, stdout, dispatch>>
                    ELSE IF found.Path = Nil
                    THEN /\ pc' = "done"
                         /\ outcome' = "panic"
                         /\ stdout' = Append(stdout,
                                <<"Triggering workflow: ">> \o found.Name[1])
                         /\ UNCHANGED <<calls, dispatch>>
                    ELSE /\ pc' = "dispatch"
                         /\ stdout' = stdout \o
                                <<<<"Triggering workflow: ">> \o found.Name[1],
                                  <<"Path: ">> \o found.Path[1],
                                  <<"Ref: ">> \o branch>>
                         /\ dispatch' = dispatchEvent(workflowID, branch,
                                                      flags.environment)
                         /\ calls' = Append(calls,
                                "Actions.CreateWorkflowDispatchEventByID")
                         /\ UNCHANGED outcome
                 /\ UNCHANGED err
    /\ UNCHANGED <<cmdName, token, owner, repo, flags, env,
                   workflows, foundWorkflow, workflowID>>
    /\ UNCHANGED matchVars

\* a command that calls CreateWorkflowDispatchEventByID again when it fails
DispatchReturns_Retry ==
    /\ pc = "dispatch"
    /\ \/ /\ pc' = "done"
          /\ outcome' = "ok"
          /\ UNCHANGED <<err, calls>>
       \/ \E e \in RemoteErrors :
             /\ Len(calls) < 4
             /\ pc' = "dispatch"
             /\ err' = <<"failed to trigger workflow: ">> \o e
             /\ calls' = Append(calls, "Actions.CreateWorkflowDispatchEventByID")
             /\ UNCHANGED outcome
    /\ UNCHANGED <<cmdName, token, owner, repo, flags, env>>
    /\ UNCHANGED matchVars
    /\ UNCHANGED workflowVars

\* client.Actions.CreateWorkflowDispatchEventByID returns
DispatchReturns ==
    /\ pc = "dispatch"
    /\ pc' = "done"
    /\ \/ /\ outcome' = "ok"
          /\ UNCHANGED err
       \/ \E e \in RemoteErrors :
             /\ outcome' = "error"
             /\ err' = <<"failed to trigger workflow: ">> \o e
    /\ UNCHANGED <<calls, cmdName, token, owner, repo, flags, env>>
    /\ UNCHANGED matchVars
    /\ UNCHANGED workflowVars

UpperOf ==
    [c \in {"a", "b", "d", "l", "m", "r", "w", "y"} |->
        CASE c = "a" -> "A" [] c = "b" -> "B" [] c = "d" -> "D" [] c = "l" -> "L"
          [] c = "m" -> "M" [] c = "r" -> "R" [] c = "w" -> "W" [] c = "y" -> "Y"]

\* strings.ToUpper and strings.ToLower on the letters of the model
ToUpper(s) == [i \in 1..Len(s) |-> IF s[i] \in DOMAIN UpperOf THEN UpperOf[s[i]] ELSE s[i]]
ToLower(s) == [i \in 1..Len(s) |-> Fold(s[i])]

DigitChars == <<"0", "1", "2", "3", "4", "5", "6", "7", "8", "9">>

\* strconv.Itoa for n >= 0
RECURSIVE Itoa(_)
Itoa(n) == IF n < 10 THEN <<DigitChars[n + 1]>> ELSE Itoa(n \div 10) \o <<DigitChars[(n % 10) + 1]>>

\* the identifiers an operator can give: names, paths, filenames with and
\* without extension, a partial name, the empty text, ids, in any case
IdentifierTexts ==
    WorkflowNames \cup WorkflowPaths
    \cup {<<"r", "b", ".", "y", "m", "l">>, <<"d", ".", "y", "a", "m", "l">>,
          <<"r", "b", ".", "y", "a", "m", "l", ".", "y", "m", "l">>,
          <<"r", "b", ".", "y", "a", "m", "l">>, <<"r", "b">>, <<"r">>, <<>>}
    \cup {Itoa(10 + i) : i \in 1..MaxWorkflows}

Identifiers ==
    IdentifierTexts \cup {ToUpper(t) : t \in IdentifierTexts}
    \cup {ToLower(t) : t \in IdentifierTexts}

InitWorkflow ==
    /\ pc = "start"
    /\ outcome = "running"
    /\ err = <<>>
    /\ calls = <<>>
    /\ cmdName = "trigger"
    /\ token = <<"t">>
    /\ owner = DefaultOwner
    /\ repo = DefaultRepo
    /\ env = NoEnv
    /\ \E a \in Identifiers, e \in {<<>>, <<"production">>} :
          flags = [NoFlags EXCEPT !.args = a, !.environment = e]
    /\ IdleMatch
    /\ IdleWorkflow

NextWorkflow ==
    \/ TriggerRunE
    \/ ListWorkflowsReturns
    \/ RepositoriesGetReturns
    \/ DispatchReturns

SpecWorkflow == InitWorkflow /\ [][NextWorkflow]_vars

-----------------------------------------------------------------------------
(* What the claims about workflow trigger speak of, stated on the inputs.  *)

\* the identifier given on the command line
Identifier == flags.args

ListFailed == err # <<>> /\ err[1] = "failed to list workflows: "

\* ListWorkflows has returned a list and the matching loop has run
Listed == pc \in {"get", "dispatch"} \/ (pc = "done" /\ ~ListFailed)

\* every listed workflow has a display name and a path
AllDescribed ==
    \A i \in 1..Len(workflows) : workflows[i].Name # Nil /\ workflows[i].Path # Nil

Suffixes(t) == {SubSeq(t, k, Len(t)) : k \in 1..(Len(t) + 1)}

\* the text after the last "/" of a path
Filename(path) ==
    CHOOSE f \in Suffixes(path) :
        /\ \A i \in 1..Len(f) : f[i] # "/"
        /\ Len(f) = Len(path) \/ path[Len(path) - Len(f)] = "/"

Ends(t, ext) == ext \in Suffixes(t)
DropLast(t, n) == SubSeq(t, 1, Len(t) - n)

YmlExt == <<".", "y", "m", "l">>
YamlExt == <<".", "y", "a", "m", "l">>

\* a filename with its extensions removed as the program removes them
Stripped(f) ==
    IF Ends(f, YmlExt)
    THEN (IF Ends(DropLast(f, 4), YamlExt) THEN DropLast(f, 9) ELSE DropLast(f, 4))
    ELSE IF Ends(f, YamlExt) THEN DropLast(f, 5)
    ELSE f

\* rule 1: the identifier is the display name, letter case ignored
ByName(w, x) == w.Name # Nil /\ ToLower(w.Name[1]) = ToLower(x)

\* rule 2: the identifier is a suffix of the path
ByPathSuffix(w, x) == w.Path # Nil /\ x \in Suffixes(w.Path[1])

\* rule 2 with letter case ignored
ByPathSuffixAnyCase(w, x) ==
    w.Path # Nil /\ ToLower(x) \in Suffixes(ToLower(w.Path[1]))

\* rule 3: the identifier is the filename without extension, letter case ignored
ByFilename(w, x) ==
    w.Path # Nil /\ ToLower(Stripped(Filename(w.Path[1]))) = ToLower(x)

Matching(rule(_, _)) == {i \in 1..Len(workflows) : rule(workflows[i], Identifier)}

First(S) == IF S = {} THEN 0 ELSE CHOOSE i \in S : \A j \in S : i <= j

\* C1 as stated: resolution works by priority tier over the whole list: the
\* first workflow matching by display name is the result even when an earlier
\* one matches by path suffix or filename; rule 2 is consulted only when no
\* workflow satisfies rule 1, rule 3 only when none satisfies rule 1 or 2.
C1_PriorityTierOverWholeList ==
    (Listed /\ AllDescribed) =>
        foundWorkflow =
            IF Matching(ByName) # {} THEN First(Matching(ByName))
            ELSE IF Matching(ByPathSuffix) # {} THEN First(Matching(ByPathSuffix))
            ELSE First(Matching(ByFilename))

\* C1 amended: resolution is one pass over the list: the result is the first
\* workflow in list order that satisfies any of the three rules, so an earlier
\* workflow matching only by path suffix or filename wins over a later one
\* matching by display name; it is not found only when no workflow satisfies
\* any rule.
C1_FirstWorkflowMatchingAnyRule ==
    Listed =>
        foundWorkflow =
            First(Matching(ByName) \cup Matching(ByPathSuffix) \cup Matching(ByFilename))

C1_Witness ==
    /\ Listed
    /\ Len(workflows) = 2
    /\ foundWorkflow = 1
    /\ Matching(ByName) = {2}
    /\ Matching(ByPathSuffix) = {}
    /\ Matching(ByFilename) = {1}

\* C2: resolving the identifier and resolving a letter-case variant of it give
\* the same outcome, also when the match is by path suffix.
C2_CaseInsensitiveThroughout ==
    (Listed /\ AllDescribed) =>
        \A variant \in {ToUpper(Identifier), ToLower(Identifier)} :
            findWorkflow(workflows, variant) = foundWorkflow

\* C3: the decimal numeric id of a listed workflow resolves to that workflow.
C3_NumericIdResolves ==
    (Listed /\ AllDescribed) =>
        \A i \in 1..Len(workflows) :
            Identifier = Itoa(workflows[i].ID) => foundWorkflow = i

\* C4: when the identifier satisfies none of the three rules for any listed
\* workflow, the command ends with the not-found error after printing every
\* listed workflow as a candidate, and neither Repositories.Get nor the
\* dispatch is called.
C4_NotFoundListsEveryCandidate ==
    (/\ Listed
     /\ Matching(ByName) = {}
     /\ Matching(ByPathSuffixAnyCase) = {}
     /\ Matching(ByFilename) = {}) =>
        /\ pc = "done"
        /\ outcome = "error"
        /\ err = <<"workflow '">> \o Identifier \o <<"' not found">>
        /\ Len(stdout) = 1 + Len(workflows)
        /\ \A i \in 1..Len(workflows) :
              /\ Contains(stdout[i + 1], workflows[i].Name[1])
              /\ Contains(stdout[i + 1], workflows[i].Path[1])
        /\ calls = <<"Actions.ListWorkflows">>

\* C5: with a list of one workflow of display name N and path ending in
\* "/F.yml" or "/F.yaml", the identifiers N, "F.yml" / "F.yaml" and F each
\* resolve to that workflow.
C5_NameFilenameAndStemResolve ==
    (/\ Listed
     /\ Len(workflows) = 1
     /\ workflows[1].Name # Nil
     /\ workflows[1].Path # Nil) =>
        LET N == workflows[1].Name[1]
            path == workflows[1].Path[1]
            IsStem(F, ext) ==
                /\ \A i \in 1..Len(F) : F[i] # "/"
                /\ Ends(path, <<"/">> \o F \o ext)
        IN  \A ext \in {YmlExt, YamlExt} :
                /\ Identifier = N => foundWorkflow = 1
                /\ (Ends(Identifier, ext) /\ IsStem(DropLast(Identifier, Len(ext)), ext))
                      => foundWorkflow = 1
                /\ IsStem(Identifier, ext) => foundWorkflow = 1

-----------------------------------------------------------------------------
(* parseSets on its own.                                                   *)

ParseSetsElements ==
    {<<"6", "-", "3">>, <<" ", "1", "0", "-", "8", "\t">>, <<"x">>, <<>>,
     <<"6", "-">>, <<"-", "3">>, <<"6", "-", "3", "-", "1">>, <<"6", " ", "-", "3">>}

ParseSetsInputs == {Join(l, <<",">>) : l \in Lists(ParseSetsElements, MaxSetParts)}

InitParseSets ==
    /\ pc = "start"
    /\ outcome = "running"
    /\ err = <<>>
    /\ calls = <<>>
    /\ cmdName = "parseSets"
    /\ token = <<"t">>
    /\ owner = DefaultOwner
    /\ repo = DefaultRepo
    /\ env = NoEnv
    /\ \E s \in ParseSetsInputs : flags = [NoFlags EXCEPT !.sets = s]
    /\ IdleMatch
    /\ IdleWorkflow

\* a call of parseSets(sets)
ParseSetsCall ==
    /\ pc = "start"
    /\ cmdName = "parseSets"
    /\ pc' = "done"
    /\ LET r == parseSets(flags.sets)
       IN  /\ outcome' = IF r.ok THEN "ok" ELSE "error"
           /\ setsList' = r.setsList
           /\ err' = r.err
    /\ UNCHANGED <<calls, cmdName, token, owner, repo, flags, env,
                   playerList, teamList, issueRequest>>
    /\ UNCHANGED workflowVars

NextParseSets == ParseSetsCall

SpecParseSets == InitParseSets /\ [][NextParseSets]_vars

-----------------------------------------------------------------------------
(* What the claims about the match commands speak of, stated on the inputs. *)

\* s is <digits>-<digits>
IsDigitsDashDigits(s) ==
    \E i \in 2..(Len(s) - 1) :
        /\ s[i] = "-"
        /\ \A j \in (1..Len(s)) \ {i} : s[j] \in Digits

MonthDays == <<31, 28, 31, 30, 31, 30, 31, 31, 30, 31, 30, 31>>

\* d is YYYY-MM-DD and names a day of the calendar
IsCalendarDate(d) ==
    /\ Len(d) = 10
    /\ d[5] = "-" /\ d[8] = "-"
    /\ \A i \in (1..10) \ {5, 8} : d[i] \in Digits
    /\ LET y == Atoi(SubSeq(d, 1, 4))
           m == Atoi(SubSeq(d, 6, 7))
           day == Atoi(SubSeq(d, 9, 10))
           leap == (y % 4 = 0 /\ y % 100 # 0) \/ y % 400 = 0
       IN  /\ m \in 1..12
           /\ day \in 1..(IF m = 2 /\ leap THEN 29 ELSE MonthDays[m])

\* the elements of --sets: split on commas, trimmed
SetElements == trimAll(Split(flags.sets, <<",">>))

OffendingSets == {i \in 1..Len(SetElements) : ~IsDigitsDashDigits(SetElements[i])}

FirstOffendingSet ==
    SetElements[CHOOSE i \in OffendingSets : \A j \in OffendingSets : i <= j]

MissingInput ==
    \/ cmdName = "singles" /\ flags.players = <<>>
    \/ cmdName = "doubles" /\ flags.teams = <<>>
    \/ flags.sets = <<>>

BadDate == flags.date # <<>> /\ ~IsCalendarDate(flags.date)

WrongCount ==
    \/ cmdName = "singles" /\ Len(Split(flags.players, <<",">>)) # 2
    \/ /\ cmdName = "doubles"
       /\ LET parts == Split(flags.teams, <<"|", "|">>)
          IN  \/ Len(parts) # 2
              \/ \E i \in 1..Len(parts) :
                    Len(Split(TrimSpace(parts[i]), <<",">>)) # 2

MalformedSet == OffendingSets # {}

ValidationFails == MissingInput \/ BadDate \/ WrongCount \/ MalformedSet

\* C6: when a validation of match singles / match doubles fails (a missing
\* players, teams or sets text, a bad date, a wrong player or team count, a
\* malformed set), the command ends with an error and Issues.Create is never
\* called; Issues.Create is called only when all of them passed.
C6_NoRemoteCallUnlessValidated ==
    /\ ValidationFails =>
          /\ calls = <<>>
          /\ pc = "done" => (outcome = "error" /\ err # <<>>)
    /\ pc = "create" => ~ValidationFails

C6_Witness ==
    /\ pc = "done"
    /\ outcome = "error"
    /\ calls = <<>>
    /\ MalformedSet
    /\ ~MissingInput /\ ~BadDate /\ ~WrongCount

\* C7: the singles command gets past the parsing of --players only with
\* exactly two non-empty handles, the trimmed parts in input order.
C7_TwoNonEmptyHandles ==
    (cmdName = "singles" /\ calls # <<>>) =>
        /\ Len(playerList) = 2
        /\ playerList = trimAll(Split(flags.players, <<",">>))
        /\ \A i \in 1..Len(playerList) : playerList[i] # <<>>

\* the inputs a failed validation rejected
RejectedInputs ==
    (IF BadDate THEN {flags.date} ELSE {})
    \cup (IF WrongCount /\ cmdName = "singles" THEN {flags.players} ELSE {})
    \cup (IF WrongCount /\ cmdName = "doubles" THEN {flags.teams} ELSE {})
    \cup {SetElements[i] : i \in OffendingSets}

\* C8 as stated: the error of a bad date, of a wrong player or team count and
\* of a malformed set alike contains the rejected input text.
C8_EveryValidationErrorEchoesInput ==
    (pc = "done" /\ outcome = "error" /\ calls = <<>> /\ ~MissingInput) =>
        \E t \in RejectedInputs : Contains(err, t)

DateError == <<"invalid date format. Use YYYY-MM-DD">>

CountErrors ==
    {<<"exactly 2 players required for singles match">>,
     <<"exactly 2 teams required for doubles match (separated by ||)">>,
     <<"each team must have exactly 2 players">>}

\* C8 amended: only a malformed set is reported with the offending input
\* echoed (the first offending element, trimmed); the error of a bad date and
\* of a wrong player or team count is a fixed message built without the input.
C8_OnlySetErrorEchoesInput ==
    (pc = "done" /\ outcome = "error" /\ calls = <<>> /\ ~MissingInput) =>
        IF BadDate THEN err = DateError
        ELSE IF WrongCount THEN err \in CountErrors
        ELSE /\ MalformedSet
             /\ Contains(err, FirstOffendingSet)
             /\ Len(err) = Len(FirstOffendingSet) + 3

C8_Witness ==
    /\ pc = "done"
    /\ outcome = "error"
    /\ ~MissingInput /\ ~BadDate /\ ~WrongCount
    /\ MalformedSet
    /\ FirstOffendingSet = <<"x">>
    /\ Contains(err, <<"x">>)

\* C10: parseSets succeeds exactly when every comma-separated element, trimmed,
\* is <digits>-<digits>; it then returns the trimmed elements in their order, at
\* least one; otherwise it returns no list and an error that cites the first
\* offending element.
C10_ParseSets ==
    pc = "done" =>
        /\ outcome = "ok" <=> OffendingSets = {}
        /\ outcome = "ok" => (setsList = SetElements /\ Len(setsList) >= 1)
        /\ outcome = "error" =>
              /\ setsList = <<>>
              /\ Len(err) = Len(FirstOffendingSet) + 2
              /\ SubSeq(err, 2, Len(err) - 1) = FirstOffendingSet

C10_Witness ==
    /\ pc = "done"
    /\ outcome = "error"
    /\ Cardinality(OffendingSets) = 2
    /\ Len(SetElements) = 3
    /\ SetElements[2] # SetElements[3]
    /\ IsDigitsDashDigits(SetElements[1])

-----------------------------------------------------------------------------
(* isValidDate on its own.                                                 *)

MaxMonth == 13   \* months 00..MaxMonth are written into the dates tried
MaxDay == 32     \* days 00..MaxDay are written into the dates tried

\* n written with at least two digits
TwoDigits(n) == IF n < 10 THEN <<"0">> \o Itoa(n) ELSE Itoa(n)

\* n written with at least four digits
FourDigits(n) ==
    IF n < 10 THEN <<"0", "0", "0">> \o Itoa(n)
    ELSE IF n < 100 THEN <<"0", "0">> \o Itoa(n)
    ELSE IF n < 1000 THEN <<"0">> \o Itoa(n)
    ELSE Itoa(n)

DateYears == {0, 1900, 2000, 2023, 2024, 9999}

\* texts of the form YYYY-MM-DD, months and days in and out of range
PatternDates ==
    {FourDigits(y) \o <<"-">> \o TwoDigits(m) \o <<"-">> \o TwoDigits(d) :
        y \in DateYears, m \in 0..MaxMonth, d \in 0..MaxDay}

DamagedBases ==
    {<<"2", "0", "2", "4", "-", "0", "2", "-", "2", "9">>,
     <<"2", "0", "2", "5", "-", "1", "1", "-", "3", "0">>}

DamageChars == {"x", "-", "/", " ", "7", "\n"}

\* a date with one character replaced, removed or added
DamagedDates ==
    UNION {
        {[b EXCEPT ![i] = c] : i \in 1..Len(b), c \in DamageChars}
        \cup {SubSeq(b, 1, i - 1) \o SubSeq(b, i + 1, Len(b)) : i \in 1..Len(b)}
        \cup {SubSeq(b, 1, i) \o <<c>> \o SubSeq(b, i + 1, Len(b)) :
                 i \in 0..Len(b), c \in DamageChars}
        : b \in DamagedBases}

DateInputs == {<<>>} \cup PatternDates \cup DamagedDates

InitDate ==
    /\ pc = "start"
    /\ outcome = "running"
    /\ err = <<>>
    /\ calls = <<>>
    /\ cmdName = "isValidDate"
    /\ token = <<"t">>
    /\ owner = DefaultOwner
    /\ repo = DefaultRepo
    /\ env = NoEnv
    /\ \E d \in DateInputs : flags = [NoFlags EXCEPT !.date = d]
    /\ IdleMatch
    /\ IdleWorkflow

\* a call of isValidDate(date): outcome "ok" for true, "error" for false
IsValidDateCall ==
    /\ pc = "start"
    /\ cmdName = "isValidDate"
    /\ pc' = "done"
    /\ outcome' = IF isValidDate(flags.date) THEN "ok" ELSE "error"
    /\ UNCHANGED <<err, calls, cmdName, token, owner, repo, flags, env>>
    /\ UNCHANGED matchVars
    /\ UNCHANGED workflowVars

NextDate == IsValidDateCall

SpecDate == InitDate /\ [][NextDate]_vars

\* C11: isValidDate accepts a text if and only if it is four digits, '-', two
\* digits, '-', two digits and names an existing day of the calendar (month
\* 01-12, day from 01 to the length of that month in that year, leap years
\* honoured).
C11_AcceptsExactlyCalendarDates ==
    pc = "done" => (outcome = "ok" <=> IsCalendarDate(flags.date))

C11_Witness ==
    /\ pc = "done"
    /\ outcome = "ok"
    /\ flags.date = <<"2", "0", "2", "4", "-", "0", "2", "-", "2", "9">>

-----------------------------------------------------------------------------
(* The teams parsing of doublesMatchCmd.RunE on its own.                   *)

\* lines 308-324 of doublesMatchCmd.RunE as a function of --teams
parseTeams(teams) ==
    LET teamParts == Split(teams, <<"|", "|">>)
        teamsParsed == parseTeamsFrom(teamParts, 1, <<>>)
    IN  IF Len(teamParts) # 2
        THEN [ok |-> FALSE, teamList |-> <<>>,
              err |-> <<"exactly 2 teams required for doubles match (separated by ||)">>]
        ELSE IF ~teamsParsed.ok
        THEN [ok |-> FALSE, teamList |-> <<>>,
              err |-> <<"each team must have exactly 2 players">>]
        ELSE [ok |-> TRUE, teamList |-> teamsParsed.teamList, err |-> <<>>]

ParseTeamsElements ==
    TeamTexts \cup {<<>>, <<",">>, <<"@", "a", ",">>,
                    <<"|", "@", "a", ",", "@", "b">>, <<"@", "a", "|", ",", "@", "b">>}

ParseTeamsInputs ==
    {<<>>} \cup {Join(l, <<"|", "|">>) : l \in Lists(ParseTeamsElements, MaxTeams)}

InitParseTeams ==
    /\ pc = "start"
    /\ outcome = "running"
    /\ err = <<>>
    /\ calls = <<>>
    /\ cmdName = "parseTeams"
    /\ token = <<"t">>
    /\ owner = DefaultOwner
    /\ repo = DefaultRepo
    /\ env = NoEnv
    /\ \E t \in ParseTeamsInputs : flags = [NoFlags EXCEPT !.teams = t]
    /\ IdleMatch
    /\ IdleWorkflow

\* the teams parsing applied to --teams
ParseTeamsCall ==
    /\ pc = "start"
    /\ cmdName = "parseTeams"
    /\ pc' = "done"
    /\ LET r == parseTeams(flags.teams)
       IN  /\ outcome' = IF r.ok THEN "ok" ELSE "error"
           /\ teamList' = r.teamList
           /\ err' = r.err
    /\ UNCHANGED <<calls, cmdName, token, owner, repo, flags, env,
                   playerList, setsList, issueRequest>>
    /\ UNCHANGED workflowVars

NextParseTeams == ParseTeamsCall

SpecParseTeams == InitParseTeams /\ [][NextParseTeams]_vars

\* the positions of s where sep starts
Occurrences(s, sep) ==
    {i \in 1..(Len(s) - Len(sep) + 1) : SubSeq(s, i, i + Len(sep) - 1) = sep}

DoublePipe == <<"|", "|">>

\* the end of the first "||" of s, when s has one
FirstPipeEnd(s) ==
    1 + CHOOSE i \in Occurrences(s, DoublePipe) :
            \A j \in Occurrences(s, DoublePipe) : i <= j

\* splitting s on "||" gives exactly two substrings: there is a first "||" and
\* none in what follows it
TwoTeamSubstrings(s) ==
    /\ Occurrences(s, DoublePipe) # {}
    /\ Occurrences(SubSeq(s, FirstPipeEnd(s) + 1, Len(s)), DoublePipe) = {}

TeamBefore(s) == SubSeq(s, 1, FirstPipeEnd(s) - 2)
TeamAfter(s) == SubSeq(s, FirstPipeEnd(s) + 1, Len(s))

\* a team substring splits on commas into exactly two handles
TwoHandles(t) == Cardinality(Occurrences(t, <<",">>)) = 1

\* the two handles of a team substring, in order, trimmed
HandlesOf(t) ==
    LET c == CHOOSE i \in Occurrences(t, <<",">>) : TRUE
    IN  <<TrimSpace(SubSeq(t, 1, c - 1)), TrimSpace(SubSeq(t, c + 1, Len(t)))>>

WellFormedTeams(s) ==
    /\ TwoTeamSubstrings(s)
    /\ TwoHandles(TeamBefore(s))
    /\ TwoHandles(TeamAfter(s))

\* C12: the teams parsing succeeds exactly when splitting --teams on "||" gives
\* exactly two team substrings and each splits on commas into exactly two
\* handles; on success the result is the two teams in order, each with its two
\* handles in order and trimmed; every other arity is rejected.
C12_ParseTeams ==
    pc = "done" =>
        /\ outcome = "ok" <=> WellFormedTeams(flags.teams)
        /\ outcome = "ok" =>
              teamList = <<HandlesOf(TeamBefore(flags.teams)),
                           HandlesOf(TeamAfter(flags.teams))>>
        /\ outcome # "ok" => outcome = "error" /\ teamList = <<>>

C12_Witness ==
    /\ pc = "done"
    /\ outcome = "ok"
    /\ teamList = << <<(<<"@", "a">>), (<<"@", "b">>)>>, <<(<<"@", "c">>), (<<"@", "d">>)>> >>
    /\ flags.teams # Join(<<Join(teamList[1], <<",">>), Join(teamList[2], <<",">>)>>,
                          DoublePipe)

-----------------------------------------------------------------------------
(* What the claims about the issue speak of, stated on the flags.          *)

\* the date of the match: --date, or the current date when it is not given
MatchDates == IF flags.date = <<>> THEN Todays ELSE {flags.date}

BlankLine == <<"\n", "\n">>

\* the sections of an issue body: the parts between blank lines
Sections(body) == Split(body, BlankLine)

\* a section: a heading, a newline, the content
Section(heading, content) == heading \o <<"\n">> \o content

\* set strings in order, each after the first preceded by one newline
RECURSIVE SetLines(_)
SetLines(sets) ==
    IF Len(sets) = 0 THEN <<>>
    ELSE IF Len(sets) = 1 THEN sets[1]
    ELSE SetLines(SubSeq(sets, 1, Len(sets) - 1)) \o <<"\n">> \o sets[Len(sets)]

SinglesIssued == cmdName = "singles" /\ issueRequest # <<>>
DoublesIssued == cmdName = "doubles" /\ issueRequest # <<>>

\* C13: the issue of a validated singles match has the title "Singles Match:
\* <winner> vs <loser> (<date>)", a body of three sections in the order date,
\* players (winner first), sets (the set strings in the order given, joined by
\* single newlines), and exactly the one singles label; title and body are
\* determined by the inputs.
C13_SinglesIssue ==
    SinglesIssued =>
        LET winner == HandlesOf(flags.players)[1]
            loser == HandlesOf(flags.players)[2]
        IN  \E date \in MatchDates :
              /\ issueRequest.title =
                    <<"Singles Match: ">> \o winner \o <<" vs ">> \o loser
                    \o <<" (">> \o date \o <<")">>
              /\ Sections(issueRequest.body) =
                    <<Section(MatchDateHeader, date),
                      Section(PlayersHeader, winner \o <<", ">> \o loser),
                      Section(SetsHeader, SetLines(SetElements))>>
              /\ issueRequest.labels = <<SinglesLabel>>

C13_Witness ==
    /\ SinglesIssued
    /\ pc = "done"
    /\ outcome = "ok"
    /\ playerList = <<(<<"@", "a">>), (<<"@", "b">>)>>
    /\ setsList = <<(<<"6", "-", "3">>), (<<"4", "-", "6">>)>>
    /\ flags.date # <<>>


\* a team as it is written in the issue: its two handles joined by ", "
Pair(team) == team[1] \o <<", ">> \o team[2]

\* C14: the issue of a validated doubles match has the title "Doubles Match:
\* (<w1>, <w2>) vs (<l1>, <l2>) (<date>)" with the first team of --teams first,
\* a body of three sections in the order date, teams (the two pairs in the same
\* order with " || " between them), sets (as for singles), and exactly the one
\* doubles label, which is not the singles label.
C14_DoublesIssue ==
    DoublesIssued =>
        LET winners == HandlesOf(TeamBefore(flags.teams))
            losers == HandlesOf(TeamAfter(flags.teams))
        IN  \E date \in MatchDates :
              /\ issueRequest.title =
                    <<"Doubles Match: (">> \o Pair(winners) \o <<") vs (">>
                    \o Pair(losers) \o <<") (">> \o date \o <<")">>
              /\ Sections(issueRequest.body) =
                    <<Section(MatchDateHeader, date),
                      Section(TeamsHeader, Pair(winners) \o <<" || ">> \o Pair(losers)),
                      Section(SetsHeader, SetLines(SetElements))>>
              /\ issueRequest.labels = <<DoublesLabel>>
              /\ issueRequest.labels # <<SinglesLabel>>

C14_Witness ==
    /\ DoublesIssued
    /\ pc = "done"
    /\ outcome = "ok"
    /\ teamList = << <<(<<"@", "c">>), (<<"@", "d">>)>>, <<(<<"@", "a">>), (<<"@", "b">>)>> >>
    /\ Len(setsList) = 3
    /\ flags.date = <<>>

-----------------------------------------------------------------------------
(* What the claims about the remote calls speak of.                        *)

\* a dispatch request has been issued
Dispatched == dispatch # <<>>

\* C15: every dispatch request carries an inputs map whose only key is
\* "environment"; its value is the --environment text when that is not empty
\* and "github-pages" otherwise.
C15_DispatchInputs ==
    Dispatched =>
        /\ DOMAIN dispatch.inputs = {"environment"}
        /\ flags.environment # <<>> => dispatch.inputs.environment = flags.environment
        /\ flags.environment = <<>> => dispatch.inputs.environment = <<"github-pages">>

C15_Witness ==
    /\ Dispatched
    /\ flags.environment = <<"production">>
    /\ dispatch.inputs.environment = <<"production">>

\* C17: on the workflow path the remote calls are made in the order list
\* workflows, get default branch, dispatch; a dispatch request is issued only
\* after a descriptor was resolved and the default branch was returned, and it
\* targets the id of the resolved descriptor with ref the branch returned.
C17_CallOrderAndDispatchTarget ==
    LET order == <<"Actions.ListWorkflows", "Repositories.Get",
                   "Actions.CreateWorkflowDispatchEventByID">>
    IN  /\ Len(calls) <= Len(order)
        /\ calls = SubSeq(order, 1, Len(calls))
        /\ Len(calls) = Len(order) <=> Dispatched
        /\ Dispatched =>
              /\ foundWorkflow \in 1..Len(workflows)
              /\ First(Matching(ByName) \cup Matching(ByPathSuffix)
                       \cup Matching(ByFilename)) = foundWorkflow
              /\ ref \in DefaultBranches
              /\ dispatch.id = workflows[foundWorkflow].ID
              /\ dispatch.ref = ref

C17_Witness ==
    /\ Dispatched
    /\ pc = "done"
    /\ outcome = "ok"
    /\ foundWorkflow = 2
    /\ dispatch.ref = <<"dev">>


\* any one invocation: match singles, match doubles or workflow trigger
InitCommands == InitMatch \/ InitWorkflow

NextCommands == NextMatch \/ NextWorkflow

SpecCommands == InitCommands /\ [][NextCommands]_vars

RemoteOperations ==
    {"Actions.ListWorkflows", "Repositories.Get",
     "Actions.CreateWorkflowDispatchEventByID", "Issues.Create"}

\* a remote operation has returned an error: the command's error carries it
RemoteFailed == \E e \in RemoteErrors : Contains(err, e)

Called == {calls[i] : i \in 1..Len(calls)}

\* one step of an invocation: it starts in a state where no remote operation
\* has failed; it makes no call, or the first call of one remote operation; if
\* a remote operation fails in it, it makes no call and ends the command with
\* an error
C16_Step ==
    /\ ~RemoteFailed
    /\ \/ calls' = calls
       \/ \E op \in RemoteOperations \ Called : calls' = Append(calls, op)
    /\ RemoteFailed' => /\ calls' = calls
                        /\ pc' = "done"
                        /\ outcome' = "error"

\* C16: in one invocation each remote operation (list workflows, get the
\* repository, dispatch, create issue) is called at most once, and once one of
\* them has returned an error no further remote call is made and the command
\* ends with that error.
C16_NoRetryAndFailureAborts == [][C16_Step]_vars

C16_Witness ==
    /\ pc = "done"
    /\ outcome = "error"
    /\ RemoteFailed
    /\ calls = <<"Actions.ListWorkflows", "Repositories.Get">>


NotFoundError ==
    outcome = "error" /\ err = <<"workflow '">> \o Identifier \o <<"' not found">>

\* C18: whatever list the platform returns, also one where a descriptor has no
\* display name or no path, workflow trigger ends in one of three ways: a
\* dispatch request issued, a not-found error, or a remote error; it never
\* aborts abnormally in the matching loop, in the listing of the candidates or
\* in the announcement of the resolved descriptor.
C18_NeverAbortsAbnormally ==
    pc = "done" =>
        /\ outcome # "panic"
        /\ \/ Dispatched /\ outcome = "ok"
           \/ NotFoundError
           \/ RemoteFailed /\ outcome = "error"

\* the first listed descriptor that has a path, 0 when there is none
FirstWithPath == First({i \in 1..Len(workflows) : workflows[i].Path # Nil})

\* C19: with the empty identifier and at least one listed descriptor that has
\* a path, resolution does not report not-found: it selects the first
\* descriptor in list order that has a path, and the command goes on to
\* dispatch that workflow (as long as the platform returns the default branch).
C19_EmptyIdentifierDispatchesFirstWithPath ==
    (Listed /\ Identifier = <<>> /\ FirstWithPath # 0) =>
        /\ ~NotFoundError
        /\ foundWorkflow = FirstWithPath
        /\ (pc \in {"dispatch", "done"} /\ ~RemoteFailed) =>
              /\ Dispatched
              /\ dispatch.id = workflows[FirstWithPath].ID

=============================================================================
